---- MODULE Spec2Model ----
(***************************************************************************)
(* Patient portal front end: the patient dashboard (PatientDashboard.jsx,  *)
(* kept as src/unnamed/part_001) and the appointment booking view          *)
(* (src/src/pages/patient/Appointments.jsx).                               *)
(*                                                                         *)
(* JavaScript values are records tagged by k: nil (null / undefined), str, *)
(* num, obj.  Results of String(...) are TLA+ strings.  Text that the code *)
(* takes apart (a time "HH:MM", a reason that is trimmed) is a sequence of *)
(* one-character strings.  A date string is kept as the calendar day it    *)
(* names together with its form, because the form decides how new Date()   *)
(* reads it (a date-only form is read as UTC midnight).  Instants are      *)
(* whole hours since an epoch; tz is the local zone's offset from UTC.     *)
(***************************************************************************)
EXTENDS Integers, Sequences, FiniteSets, TLC

VARIABLES
    now,            \* the instant new Date() returns (hours since the epoch, UTC)
    tz,             \* local time = UTC + tz hours
    call,           \* pure-function harness: the call made
    ret,            \* pure-function harness: what it returned
    \* the patient dashboard (usePatientDashboardData)
    user,           \* the user the auth context supplies
    mounted,        \* the dashboard is mounted
    stats, appointments, analyses, trends, loading, error,   \* its useState cells
    cycles,         \* load cycles whose Promise.all has not settled yet
    started,        \* number of load cycles started so far
    \* the booking view (Appointments)
    bkMounted,      \* "no" before the mount, "yes" while mounted, "gone" after the unmount
    bkAppointments, doctors, bkLoading, showForm, formData, errors, submitError,
    successMessage, submitting,          \* its useState cells
    successMessageTimeoutRef,            \* the timer handle kept in the ref, 0 for null
    timers,         \* hide-timers scheduled and neither fired nor cleared
    creates,        \* appointmentService.create calls that have not settled
    fetches,        \* getAll calls of the view that have not settled
    submitted,      \* number of create calls started so far
    updates,        \* appointmentService.update calls that have not settled
    cancels,        \* number of update calls started so far
    fetchSeq,       \* number of getAll calls for the appointment list started so far
    shownFetch,     \* the getAll call whose response bkAppointments holds, 0 for none
    lastResolved,   \* the latest-started getAll call among those that have resolved
    lateSetters,    \* state setters invoked after the unmount (React ignores them)
    \* observation
    settled         \* the load or create whose continuation the last step ran

envVars == <<now, tz>>
fnVars == <<call, ret>>
dashState == <<stats, appointments, analyses, trends, loading, error>>
dashVars == <<user, mounted, stats, appointments, analyses, trends, loading, error,
              cycles, started>>
formState == <<bkAppointments, doctors, bkLoading, showForm, formData, errors,
               submitError, successMessage, submitting>>
formVars == <<bkMounted, bkAppointments, doctors, bkLoading, showForm, formData, errors,
              submitError, successMessage, submitting, successMessageTimeoutRef, timers,
              creates, fetches, submitted, updates, cancels, fetchSeq, shownFetch,
              lastResolved, lateSetters>>
vars == <<now, tz, call, ret, user, mounted, stats, appointments, analyses, trends,
          loading, error, cycles, started, bkMounted, bkAppointments, doctors, bkLoading,
          showForm, formData, errors, submitError, successMessage, submitting,
          successMessageTimeoutRef, timers, creates, fetches, submitted, updates,
          cancels, fetchSeq, shownFetch, lastResolved, lateSetters, settled>>

\* ------------------------------------------------------------ JS values

Nil == [k |-> "nil"]
Str(s) == [k |-> "str", v |-> s]
Num(n) == [k |-> "num", v |-> n]
Obj(id) == [k |-> "obj", _id |-> id]
UserObj(i1, i2) == [k |-> "obj", _id |-> i1, id |-> i2]

\* x ?? y
Coalesce(x, y) == IF x.k = "nil" THEN y ELSE x

\* x?._id  (a property read on a primitive is undefined)
OptId(x) == IF x.k = "obj" THEN x._id ELSE Nil

\* x?.id
OptPlainId(x) == IF x.k = "obj" THEN x.id ELSE Nil

\* the truthiness test of  x ? a : b  and  !x
Truthy(x) ==
    CASE x.k = "nil" -> FALSE
      [] x.k = "str" -> x.v # ""
      [] x.k = "num" -> x.v # 0
      [] x.k = "obj" -> TRUE

Digits == <<"0", "1", "2", "3", "4", "5", "6", "7", "8", "9">>

\* String(x)
JsString(x) ==
    CASE x.k = "nil" -> "undefined"
      [] x.k = "str" -> x.v
      [] x.k = "num" -> Digits[x.v + 1]
      [] x.k = "obj" -> "[object Object]"

\* ------------------------------------------------------------ identity

\* mutant: id preferred over _id
getCurrentPatientId_IdFirst(u) ==
    IF Truthy(u)
    THEN JsString(Coalesce(Coalesce(OptPlainId(u), OptId(u)), Str("")))
    ELSE ""

getCurrentPatientId(u) ==
    IF Truthy(u)
    THEN JsString(Coalesce(Coalesce(OptId(u), OptPlainId(u)), Str("")))
    ELSE ""

getPatientIdFromAppointment(appointment) ==
    LET id ==
          Coalesce(Coalesce(Coalesce(Coalesce(Coalesce(Coalesce(
              OptId(appointment.patient),
              appointment.patient),
              appointment.patientId),
              OptId(appointment.user)),
              appointment.user),
              appointment.userId),
              Str(""))
    IN JsString(id)

\* ------------------------------------------------------------ dates

NoDate == [form |-> "empty"]
DateOnly(d) == [form |-> "date", day |-> d]              \* "YYYY-MM-DD"
DateTimeZ(d, h) == [form |-> "utc", day |-> d, hour |-> h] \* "YYYY-MM-DDTHH:00:00.000Z"

\* new Date(s) for a well-formed s: the date-only form is UTC midnight
DateParse(s) ==
    CASE s.form = "date" -> s.day * 24
      [] s.form = "utc" -> s.day * 24 + s.hour

\* d.setHours(0, 0, 0, 0): midnight of the local day the instant falls on
LocalMidnight(t) == ((t + tz) \div 24) * 24 - tz

\* new Date(s) >= t ; an Invalid Date compares false
DateAtLeast(s, t) == s.form # "empty" /\ DateParse(s) >= t

\* ------------------------------------------------------------ filter

RECURSIVE FilterLoop(_, _, _, _, _, _)
FilterLoop(all, patientId, todayStart, i, patientAppointments, upcomingCount) ==
    IF i > Len(all)
    THEN [patientAppointments |-> patientAppointments, upcomingCount |-> upcomingCount]
    ELSE LET appointment == all[i] IN
         IF getPatientIdFromAppointment(appointment) # patientId
         THEN FilterLoop(all, patientId, todayStart, i + 1,
                         patientAppointments, upcomingCount)
         ELSE FilterLoop(all, patientId, todayStart, i + 1,
                         Append(patientAppointments, appointment),
                         IF /\ DateAtLeast(appointment.appointmentDate, todayStart)
                            /\ (appointment.status = "confirmed" \/ appointment.status = "pending")
                         THEN upcomingCount + 1
                         ELSE upcomingCount)

\* mutant: the guard on an empty patientId left out
filter_NoGuard(all, patientId) ==
    FilterLoop(all, patientId, LocalMidnight(now), 1, <<>>, 0)

\* mutant: the raw list is used without filtering by owner
filter_Unfiltered(all, patientId) ==
    IF patientId = ""
    THEN [patientAppointments |-> <<>>, upcomingCount |-> 0]
    ELSE [patientAppointments |-> all,
          upcomingCount |-> FilterLoop(all, patientId, LocalMidnight(now),
                                       1, <<>>, 0).upcomingCount]

filterAppointmentsForPatientAndCountUpcoming(all, patientId) ==
    IF patientId = ""
    THEN [patientAppointments |-> <<>>, upcomingCount |-> 0]
    ELSE FilterLoop(all, patientId, LocalMidnight(now), 1, <<>>, 0)

\* ------------------------------------------------------------ validation

BUSINESS_HOURS == [start |-> 9, end |-> 17]
REASON_MIN_LENGTH == 10

\* Number(s) for a piece of a split string: '' is 0, digits are their value,
\* anything else is NaN
NaN == [nan |-> TRUE]
Number(n) == [nan |-> FALSE, n |-> n]

DigitValue(c) == CHOOSE d \in 0..9 : Digits[d + 1] = c
IsDigit(c) == \E d \in 0..9 : Digits[d + 1] = c

RECURSIVE DigitsValue(_, _)
DigitsValue(s, acc) ==
    IF s = <<>> THEN acc
    ELSE DigitsValue(Tail(s), acc * 10 + DigitValue(Head(s)))

JsNumber(s) ==
    IF \A i \in 1..Len(s) : IsDigit(s[i]) THEN Number(DigitsValue(s, 0)) ELSE NaN

\* s.split(sep): the pieces between the separators
RECURSIVE SplitLoop(_, _, _, _)
SplitLoop(s, sep, piece, pieces) ==
    IF s = <<>> THEN Append(pieces, piece)
    ELSE IF Head(s) = sep
         THEN SplitLoop(Tail(s), sep, <<>>, Append(pieces, piece))
         ELSE SplitLoop(Tail(s), sep, Append(piece, Head(s)), pieces)

Split(s, sep) == SplitLoop(s, sep, <<>>, <<>>)

\* s.trim()
RECURSIVE TrimStart(_)
TrimStart(s) ==
    IF s # <<>> /\ Head(s) = " " THEN TrimStart(Tail(s)) ELSE s

RECURSIVE TrimEnd(_)
TrimEnd(s) ==
    IF s # <<>> /\ s[Len(s)] = " " THEN TrimEnd(SubSeq(s, 1, Len(s) - 1)) ELSE s

Trim(s) == TrimEnd(TrimStart(s))

isDateInFuture(dateStr) ==
    IF dateStr.form = "empty" THEN FALSE
    ELSE LET today == LocalMidnight(now)
             chosen == LocalMidnight(DateParse(dateStr))
         IN chosen >= today

\* mutant: the end of the business day excluded
isBusinessHours_EndExclusive(timeStr) ==
    IF timeStr = <<>> THEN FALSE
    ELSE LET parts == Split(timeStr, ":")
             h == JsNumber(parts[1])
             m == IF Len(parts) >= 2 THEN JsNumber(parts[2]) ELSE Number(0)
         IN IF h.nan \/ m.nan THEN FALSE
            ELSE LET minutes == h.n * 60 + m.n
                 IN minutes >= BUSINESS_HOURS.start * 60 /\ minutes < BUSINESS_HOURS.end * 60

isBusinessHours(timeStr) ==
    IF timeStr = <<>> THEN FALSE
    ELSE LET parts == Split(timeStr, ":")
             h == JsNumber(parts[1])
             m == IF Len(parts) >= 2 THEN JsNumber(parts[2]) ELSE Number(0)
             startMinutes == BUSINESS_HOURS.start * 60
             endMinutes == BUSINESS_HOURS.end * 60
         IN IF h.nan \/ m.nan THEN FALSE
            ELSE LET minutes == h.n * 60 + m.n
                 IN minutes >= startMinutes /\ minutes <= endMinutes

\* mutant: an empty reason passes, as an empty date or time does
getFieldValidationError_EmptyReasonPasses(name, value) ==
    CASE name = "doctor" ->
           IF value # "" THEN "" ELSE "Doctor selection is required"
      [] name = "appointmentDate" ->
           IF value.form # "empty"
           THEN (IF isDateInFuture(value) THEN "" ELSE "Date must be in the future")
           ELSE ""
      [] name = "appointmentTime" ->
           IF value # <<>>
           THEN (IF isBusinessHours(value) THEN ""
                 ELSE "Time must be during business hours (9 AM - 17 PM)")
           ELSE ""
      [] name = "reason" ->
           IF value # <<>>
           THEN (IF Len(Trim(value)) >= REASON_MIN_LENGTH THEN ""
                 ELSE "Reason must be at least 10 characters")
           ELSE ""
      [] OTHER -> ""

getFieldValidationError(name, value) ==
    CASE name = "doctor" ->
           IF value # "" THEN "" ELSE "Doctor selection is required"
      [] name = "appointmentDate" ->
           IF value.form # "empty"
           THEN (IF isDateInFuture(value) THEN "" ELSE "Date must be in the future")
           ELSE ""
      [] name = "appointmentTime" ->
           IF value # <<>>
           THEN (IF isBusinessHours(value) THEN ""
                 ELSE "Time must be during business hours (9 AM - 17 PM)")
           ELSE ""
      [] name = "reason" ->
           IF value # <<>>
           THEN (IF Len(Trim(value)) >= REASON_MIN_LENGTH THEN ""
                 ELSE "Reason must be at least 10 characters")
           ELSE "Reason must be at least 10 characters"
      [] OTHER -> ""

\* mutant: the reason is left out of the whole-form validation
validateBookingForm_NoReason(data) ==
    [doctor |-> getFieldValidationError("doctor", data.doctor),
     appointmentDate |-> getFieldValidationError("appointmentDate", data.appointmentDate),
     appointmentTime |-> getFieldValidationError("appointmentTime", data.appointmentTime),
     reason |-> ""]

validateBookingForm(data) ==
    [doctor |-> getFieldValidationError("doctor", data.doctor),
     appointmentDate |-> getFieldValidationError("appointmentDate", data.appointmentDate),
     appointmentTime |-> getFieldValidationError("appointmentTime", data.appointmentTime),
     reason |-> getFieldValidationError("reason", data.reason)]

\* ------------------------------------------------------------ harness
\* A pure function is checked by drawing its arguments in the initial state
\* and applying it in one step.

NoCall == [fn |-> "none"]
Pending == [k |-> "pending"]
Returned(x) == [k |-> "returned", v |-> x]

FnIdle == call = NoCall /\ ret = Pending

\* the zones the view may run in: behind UTC, UTC, ahead of UTC
TimeZones == {0 - 5, 0, 3}

\* calendar days are numbered; day 10 is "today" in UTC
Today == 10

Appointment(patient, patientId, userRef, userId, appointmentDate, status) ==
    [patient |-> patient, patientId |-> patientId, user |-> userRef, userId |-> userId,
     appointmentDate |-> appointmentDate, status |-> status]

Statuses == {"pending", "confirmed", "completed", "cancelled"}

\* ---- identity resolution

IdValues == {Nil, Str("a"), Str("b"), Str(""), Num(1)}
Users == {Nil} \cup {UserObj(i1, i2) : i1 \in IdValues, i2 \in IdValues}

PatientRefs == {Nil, Str("p2"), Str(""), Num(1), Obj(Nil), Obj(Str("p1"))}
PatientIdValues == {Nil, Str("p3"), Num(2)}
UserRefs == {Nil, Str("u3"), Obj(Nil), Obj(Str("u2"))}
UserIdValues == {Nil, Str("u1")}

OwnerShapes ==
    {Appointment(p, pi, u, ui, DateOnly(Today), "pending") :
        p \in PatientRefs, pi \in PatientIdValues, u \in UserRefs, ui \in UserIdValues}

IdentityCalls ==
    {[fn |-> "getCurrentPatientId", user |-> u] : u \in Users}
    \cup {[fn |-> "getPatientIdFromAppointment", appointment |-> a] : a \in OwnerShapes}

CallGetCurrentPatientId ==
    /\ call.fn = "getCurrentPatientId" /\ ret = Pending
    /\ ret' = Returned(getCurrentPatientId(call.user))
    /\ UNCHANGED <<call, now, tz, dashVars, formVars, settled>>

CallGetPatientIdFromAppointment ==
    /\ call.fn = "getPatientIdFromAppointment" /\ ret = Pending
    /\ ret' = Returned(getPatientIdFromAppointment(call.appointment))
    /\ UNCHANGED <<call, now, tz, dashVars, formVars, settled>>

\* ---- filter

MaxLen == 2

FilterRecords ==
    {Appointment(p, Nil, Nil, Nil, d, s) :
        p \in {Str("p1"), Obj(Str("p2")), Nil},
        d \in {DateOnly(Today), DateOnly(Today - 1), DateTimeZ(Today, 12)},
        s \in Statuses}

FilterLists == UNION {[1..n -> FilterRecords] : n \in 0..MaxLen}

FilterCalls ==
    {[fn |-> "filterAppointmentsForPatientAndCountUpcoming",
      appointments |-> l, patientId |-> p] : l \in FilterLists, p \in {"", "p1", "p2"}}

CallFilter ==
    /\ call.fn = "filterAppointmentsForPatientAndCountUpcoming" /\ ret = Pending
    /\ ret' = Returned(filterAppointmentsForPatientAndCountUpcoming(
                           call.appointments, call.patientId))
    /\ UNCHANGED <<call, now, tz, dashVars, formVars, settled>>

\* ---- validation

TwoDigits(n) == <<Digits[(n \div 10) + 1], Digits[(n % 10) + 1]>>

\* "HH:MM"
TimeStr(h, m) == TwoDigits(h) \o <<":">> \o TwoDigits(m)

ClockTimes == {TimeStr(h, m) : h \in 0..23, m \in 0..59}

\* the longest reason drawn
MaxReasonLen == 11

Reasons == UNION {[1..n -> {" ", "x"}] : n \in 0..MaxReasonLen}

DateStrs == {NoDate} \cup {DateOnly(d) : d \in (Today - 2)..(Today + 2)}

ValidationCalls ==
    {[fn |-> "isDateInFuture", dateStr |-> d] : d \in DateStrs}
    \cup {[fn |-> "isBusinessHours", timeStr |-> t] : t \in ClockTimes \cup {<<>>, <<"1", "2">>}}
    \cup {[fn |-> "getFieldValidationError", name |-> "doctor", value |-> v] :
             v \in {"", "d1"}}
    \cup {[fn |-> "getFieldValidationError", name |-> "appointmentDate", value |-> v] :
             v \in DateStrs}
    \cup {[fn |-> "getFieldValidationError", name |-> "appointmentTime", value |-> v] :
             v \in ClockTimes \cup {<<>>}}
    \cup {[fn |-> "getFieldValidationError", name |-> "reason", value |-> v] :
             v \in Reasons}
    \cup {[fn |-> "getFieldValidationError", name |-> "symptoms", value |-> v] :
             v \in {<<>>, <<"x">>}}

CallIsDateInFuture ==
    /\ call.fn = "isDateInFuture" /\ ret = Pending
    /\ ret' = Returned(isDateInFuture(call.dateStr))
    /\ UNCHANGED <<call, now, tz, dashVars, formVars, settled>>

CallIsBusinessHours ==
    /\ call.fn = "isBusinessHours" /\ ret = Pending
    /\ ret' = Returned(isBusinessHours(call.timeStr))
    /\ UNCHANGED <<call, now, tz, dashVars, formVars, settled>>

CallGetFieldValidationError ==
    /\ call.fn = "getFieldValidationError" /\ ret = Pending
    /\ ret' = Returned(getFieldValidationError(call.name, call.value))
    /\ UNCHANGED <<call, now, tz, dashVars, formVars, settled>>

\* ------------------------------------------------------------ dashboard

\* no asynchronous continuation ran in the last step
NoSettle == [kind |-> "none"]

\* line 117:  user?.id ?? user?._id ?? null
HookUserId(u) == Coalesce(Coalesce(OptPlainId(u), OptId(u)), Nil)

\* line 179:  userId ? String(userId) : ''
EffectPatientId(userId) == IF Truthy(userId) THEN JsString(userId) ELSE ""

\* the useState initial values of a fresh instance
DashInitialState ==
    /\ stats = Nil /\ appointments = <<>> /\ analyses = <<>> /\ trends = <<>>
    /\ loading = TRUE /\ error = Nil

\* the effect's cleanup: the cycle it started, if any, is cancelled
Cancelled(cs) == {[c EXCEPT !.cancelled = TRUE] : c \in cs}

\* what the services answer
ServerStats ==
    [myAppointments |-> 7, upcomingAppointments |-> 7, myAnalyses |-> 1, myReports |-> 0]

ServerAppointments ==
    << Appointment(Str("a"), Nil, Nil, Nil, DateOnly(Today), "confirmed"),
       Appointment(Obj(Str("b")), Nil, Nil, Nil, DateOnly(Today), "pending"),
       Appointment(Nil, Nil, Nil, Str("a"), DateOnly(Today - 1), "cancelled") >>

Rejected == [ok |-> FALSE]
Resolved(x) == [ok |-> TRUE, v |-> x]

StatsOutcomes == {Rejected, Resolved(ServerStats)}
AppointmentsOutcomes == {Rejected, Resolved(ServerAppointments)}
AnalysesOutcomes == {Rejected, Resolved(<<"analysis">>)}
TrendsOutcomes == {Rejected, Resolved(<<"trend">>)}

\* .catch(() => fallback)
Caught(outcome, fallback) == IF outcome.ok THEN outcome.v ELSE fallback

MaxCycles == 2

\* the effect body (lines 178-195), run with the dependency userId
Effect(userId, oldCycles) ==
    LET currentPatientId == EffectPatientId(userId) IN
    IF currentPatientId = ""
    THEN /\ loading' = FALSE
         /\ error' = Nil
         /\ cycles' = oldCycles
         /\ UNCHANGED started
    ELSE /\ started < MaxCycles
         /\ loading' = TRUE
         /\ error' = Nil
         /\ started' = started + 1
         /\ cycles' = oldCycles \cup
                {[id |-> started + 1, currentPatientId |-> currentPatientId,
                  cancelled |-> FALSE]}

\* first render of a fresh instance, then its effect
Mount ==
    /\ ~mounted
    /\ mounted' = TRUE
    /\ stats' = Nil /\ appointments' = <<>> /\ analyses' = <<>> /\ trends' = <<>>
    /\ Effect(HookUserId(user), cycles)
    /\ settled' = NoSettle
    /\ UNCHANGED <<user, envVars, fnVars, formVars>>

\* the auth context supplies another user: a mounted dashboard renders again,
\* and the effect is cleaned up and run again only when its dependency changed
SetUser(u) ==
    /\ u # user
    /\ user' = u
    /\ IF mounted /\ HookUserId(u) # HookUserId(user)
       THEN Effect(HookUserId(u), Cancelled(cycles))
       ELSE UNCHANGED <<loading, error, cycles, started>>
    /\ settled' = NoSettle
    /\ UNCHANGED <<mounted, stats, appointments, analyses, trends, envVars, fnVars, formVars>>

Unmount ==
    /\ mounted
    /\ mounted' = FALSE
    /\ cycles' = Cancelled(cycles)
    /\ settled' = NoSettle
    /\ UNCHANGED <<user, dashState, started, envVars, fnVars, formVars>>

\* the continuation commits whether or not its cycle was cancelled
Settle_IgnoresCancel(c, statsOutcome, appointmentsOutcome, analysesOutcome, trendsOutcome) ==
    /\ c \in cycles
    /\ cycles' = cycles \ {c}
    /\ IF ~statsOutcome.ok
       THEN \* catch, finally
            IF FALSE
            THEN UNCHANGED dashState
            ELSE /\ error' = Str("getStats failed")
                 /\ loading' = FALSE
                 /\ UNCHANGED <<stats, appointments, analyses, trends>>
       ELSE IF FALSE
            THEN UNCHANGED dashState
            ELSE LET allAppointments == Caught(appointmentsOutcome, <<>>)
                     r == filterAppointmentsForPatientAndCountUpcoming(
                              allAppointments, c.currentPatientId)
                 IN /\ stats' = [statsOutcome.v EXCEPT
                                    !.myAppointments = Len(r.patientAppointments),
                                    !.upcomingAppointments = r.upcomingCount]
                    /\ appointments' = r.patientAppointments
                    /\ analyses' = Caught(analysesOutcome, <<>>)
                    /\ trends' = Caught(trendsOutcome, <<>>)
                    /\ loading' = FALSE
                    /\ UNCHANGED error
    /\ settled' = [kind |-> "dashboard", cancelled |-> c.cancelled,
                    currentPatientId |-> c.currentPatientId,
                    ok |-> <<statsOutcome.ok, appointmentsOutcome.ok,
                             analysesOutcome.ok, trendsOutcome.ok>>]
    /\ UNCHANGED <<user, mounted, started, envVars, fnVars, formVars>>

\* getTrends without its .catch: its failure rejects Promise.all
Settle_TrendsFatal(c, statsOutcome, appointmentsOutcome, analysesOutcome, trendsOutcome) ==
    /\ c \in cycles
    /\ cycles' = cycles \ {c}
    /\ IF ~statsOutcome.ok \/ ~trendsOutcome.ok
       THEN \* catch, finally
            IF c.cancelled
            THEN UNCHANGED dashState
            ELSE /\ error' = Str("request failed")
                 /\ loading' = FALSE
                 /\ UNCHANGED <<stats, appointments, analyses, trends>>
       ELSE IF c.cancelled
            THEN UNCHANGED dashState
            ELSE LET allAppointments == Caught(appointmentsOutcome, <<>>)
                     r == filterAppointmentsForPatientAndCountUpcoming(
                              allAppointments, c.currentPatientId)
                 IN /\ stats' = [statsOutcome.v EXCEPT
                                    !.myAppointments = Len(r.patientAppointments),
                                    !.upcomingAppointments = r.upcomingCount]
                    /\ appointments' = r.patientAppointments
                    /\ analyses' = Caught(analysesOutcome, <<>>)
                    /\ trends' = Caught(trendsOutcome, <<>>)
                    /\ loading' = FALSE
                    /\ UNCHANGED error
    /\ settled' = [kind |-> "dashboard", cancelled |-> c.cancelled,
                    currentPatientId |-> c.currentPatientId,
                    ok |-> <<statsOutcome.ok, appointmentsOutcome.ok,
                             analysesOutcome.ok, trendsOutcome.ok>>]
    /\ UNCHANGED <<user, mounted, started, envVars, fnVars, formVars>>

\* the server's stats are spread after the computed counts and override them
Settle_ServerCountsWin(c, statsOutcome, appointmentsOutcome, analysesOutcome, trendsOutcome) ==
    /\ c \in cycles
    /\ cycles' = cycles \ {c}
    /\ IF ~statsOutcome.ok
       THEN \* catch, finally
            IF c.cancelled
            THEN UNCHANGED dashState
            ELSE /\ error' = Str("getStats failed")
                 /\ loading' = FALSE
                 /\ UNCHANGED <<stats, appointments, analyses, trends>>
       ELSE IF c.cancelled
            THEN UNCHANGED dashState
            ELSE LET allAppointments == Caught(appointmentsOutcome, <<>>)
                     r == filterAppointmentsForPatientAndCountUpcoming(
                              allAppointments, c.currentPatientId)
                 IN /\ stats' = statsOutcome.v
                    /\ appointments' = r.patientAppointments
                    /\ analyses' = Caught(analysesOutcome, <<>>)
                    /\ trends' = Caught(trendsOutcome, <<>>)
                    /\ loading' = FALSE
                    /\ UNCHANGED error
    /\ settled' = [kind |-> "dashboard", cancelled |-> c.cancelled,
                    currentPatientId |-> c.currentPatientId,
                    ok |-> <<statsOutcome.ok, appointmentsOutcome.ok,
                             analysesOutcome.ok, trendsOutcome.ok>>]
    /\ UNCHANGED <<user, mounted, started, envVars, fnVars, formVars>>

\* fetchDashboardData (lines 136-175) from the point where Promise.all settles
Settle(c, statsOutcome, appointmentsOutcome, analysesOutcome, trendsOutcome) ==
    /\ c \in cycles
    /\ cycles' = cycles \ {c}
    /\ IF ~statsOutcome.ok
       THEN \* catch, finally
            IF c.cancelled
            THEN UNCHANGED dashState
            ELSE /\ error' = Str("getStats failed")
                 /\ loading' = FALSE
                 /\ UNCHANGED <<stats, appointments, analyses, trends>>
       ELSE IF c.cancelled
            THEN UNCHANGED dashState
            ELSE LET allAppointments == Caught(appointmentsOutcome, <<>>)
                     r == filterAppointmentsForPatientAndCountUpcoming(
                              allAppointments, c.currentPatientId)
                 IN /\ stats' = [statsOutcome.v EXCEPT
                                    !.myAppointments = Len(r.patientAppointments),
                                    !.upcomingAppointments = r.upcomingCount]
                    /\ appointments' = r.patientAppointments
                    /\ analyses' = Caught(analysesOutcome, <<>>)
                    /\ trends' = Caught(trendsOutcome, <<>>)
                    /\ loading' = FALSE
                    /\ UNCHANGED error
    /\ settled' = [kind |-> "dashboard", cancelled |-> c.cancelled,
                    currentPatientId |-> c.currentPatientId,
                    ok |-> <<statsOutcome.ok, appointmentsOutcome.ok,
                             analysesOutcome.ok, trendsOutcome.ok>>]
    /\ UNCHANGED <<user, mounted, started, envVars, fnVars, formVars>>

DashUsers ==
    {Nil, UserObj(Str("a"), Str("a")), UserObj(Str("b"), Str("b")),
     UserObj(Str("a"), Str("b")), UserObj(Nil, Str("a"))}

DashIdle ==
    /\ user = Nil /\ mounted = FALSE /\ DashInitialState
    /\ cycles = {} /\ started = 0

\* ------------------------------------------------------------ booking view

SUCCESS_MESSAGE_HIDE_MS == 5000

initialFormData ==
    [doctor |-> "", appointmentDate |-> NoDate, appointmentTime |-> <<>>,
     reason |-> <<>>, symptoms |-> <<>>]

initialErrors ==
    [doctor |-> "", appointmentDate |-> "", appointmentTime |-> "", reason |-> ""]

\* lines 121-129
isFormValid ==
    LET fieldErrors == validateBookingForm(formData)
    IN /\ fieldErrors.doctor = ""
       /\ fieldErrors.appointmentDate = ""
       /\ fieldErrors.appointmentTime = ""
       /\ fieldErrors.reason = ""

\* the button ignores the submit in flight
SubmitDisabled_IgnoresSubmitting == ~isFormValid

\* line 426:  disabled={!isFormValid || submitting}
SubmitDisabled == ~isFormValid \/ submitting

\* the form is on screen: past the loading screen (line 263), showForm (line 295)
FormRendered == bkMounted = "yes" /\ ~bkLoading /\ showForm

BkInitialState ==
    /\ bkAppointments = <<>> /\ doctors = <<>> /\ bkLoading = TRUE /\ showForm = FALSE
    /\ formData = initialFormData /\ errors = initialErrors /\ submitError = ""
    /\ successMessage = "" /\ submitting = FALSE

FormIdle ==
    /\ bkMounted = "no" /\ BkInitialState
    /\ successMessageTimeoutRef = 0 /\ timers = {} /\ creates = {} /\ fetches = {}
    /\ submitted = 0 /\ updates = {} /\ cancels = 0
    /\ fetchSeq = 0 /\ shownFetch = 0 /\ lastResolved = 0 /\ lateSetters = {}

\* what the services answer
ServerDoctors == <<"d1">>
DoctorsOutcomes == {Rejected, Resolved(ServerDoctors)}
BookingListOutcomes == {Rejected, Resolved(<<>>), Resolved(ServerAppointments)}
CreateOutcomes ==
    {Resolved("created"), [ok |-> FALSE, message |-> "Doctor is not available"],
     [ok |-> FALSE, message |-> ""]}

\* the setters a continuation invokes, noted when the view has unmounted
Late(setters) == IF bkMounted = "gone" THEN lateSetters \cup setters ELSE lateSetters

\* a state setter: React drops an update of an unmounted component
Set(new, old) == IF bkMounted = "yes" THEN new ELSE old

cancelVars == <<updates, cancels>>
listVars == <<fetchSeq, shownFetch, lastResolved>>

Max(x, y) == IF x >= y THEN x ELSE y

\* first render and the two mount effects (lines 153-169)
BkMount ==
    /\ bkMounted = "no"
    /\ bkMounted' = "yes"
    /\ fetchSeq' = fetchSeq + 1
    /\ fetches' = {[kind |-> "loadAppointments", id |-> fetchSeq + 1],
                   [kind |-> "loadDoctors"]}
    /\ settled' = NoSettle
    /\ UNCHANGED <<formState, successMessageTimeoutRef, timers, creates, submitted,
                   cancelVars, shownFetch, lastResolved>>
    /\ UNCHANGED lateSetters
    /\ UNCHANGED <<envVars, fnVars, dashVars>>

\* loadAppointments (lines 132-142) from its await on; isCancelled() is the
\* flag the unmount sets
LoadAppointmentsSettle(f, outcome) ==
    /\ f \in fetches /\ f.kind = "loadAppointments"
    /\ fetches' = fetches \ {f}
    /\ IF bkMounted = "gone"
       THEN UNCHANGED <<bkAppointments, bkLoading, shownFetch>>
       ELSE /\ bkAppointments' = Caught(outcome, <<>>)
            /\ bkLoading' = FALSE
            /\ shownFetch' = IF outcome.ok THEN f.id ELSE shownFetch
    /\ lastResolved' = IF outcome.ok THEN Max(lastResolved, f.id) ELSE lastResolved
    /\ settled' = [kind |-> "loadAppointments", cancelled |-> bkMounted = "gone",
                   ok |-> <<outcome.ok>>]
    /\ UNCHANGED <<bkMounted, doctors, showForm, formData, errors, submitError,
                   successMessage, submitting, successMessageTimeoutRef, timers,
                   creates, submitted, cancelVars, fetchSeq>>
    /\ UNCHANGED lateSetters
    /\ UNCHANGED <<envVars, fnVars, dashVars>>

\* loadDoctors (lines 144-151) from its await on
LoadDoctorsSettle(outcome) ==
    /\ [kind |-> "loadDoctors"] \in fetches
    /\ fetches' = fetches \ {[kind |-> "loadDoctors"]}
    /\ doctors' = IF outcome.ok /\ bkMounted # "gone" THEN outcome.v ELSE doctors
    /\ settled' = [kind |-> "loadDoctors", cancelled |-> bkMounted = "gone",
                   ok |-> <<outcome.ok>>]
    /\ UNCHANGED <<bkMounted, bkAppointments, bkLoading, showForm, formData, errors,
                   submitError, successMessage, submitting, successMessageTimeoutRef,
                   timers, creates, submitted, cancelVars, listVars>>
    /\ UNCHANGED lateSetters
    /\ UNCHANGED <<envVars, fnVars, dashVars>>

\* refreshAppointments (lines 180-187) from its await on
RefreshSettle(f, outcome) ==
    /\ f \in fetches /\ f.kind = "refresh"
    /\ fetches' = fetches \ {f}
    /\ bkAppointments' = IF outcome.ok THEN Set(outcome.v, bkAppointments)
                         ELSE bkAppointments
    /\ shownFetch' = IF outcome.ok THEN Set(f.id, shownFetch) ELSE shownFetch
    /\ lastResolved' = IF outcome.ok THEN Max(lastResolved, f.id) ELSE lastResolved
    /\ settled' = NoSettle
    /\ lateSetters' = IF outcome.ok THEN Late({"setAppointments"}) ELSE lateSetters
    /\ UNCHANGED <<bkMounted, doctors, bkLoading, showForm, formData, errors,
                   submitError, successMessage, submitting, successMessageTimeoutRef,
                   timers, creates, submitted, cancelVars, fetchSeq>>
    /\ UNCHANGED <<envVars, fnVars, dashVars>>

\* the "Book Appointment" button of the header (line 290)
ToggleForm ==
    /\ bkMounted = "yes" /\ ~bkLoading
    /\ showForm' = ~showForm
    /\ UNCHANGED <<bkMounted, bkAppointments, doctors, bkLoading, formData, errors,
                   submitError, successMessage, submitting, successMessageTimeoutRef,
                   timers, creates, fetches, submitted>>
    /\ settled' = NoSettle
    /\ UNCHANGED <<cancelVars, listVars>>
    /\ UNCHANGED lateSetters
    /\ UNCHANGED <<envVars, fnVars, dashVars>>

\* the form's Cancel button (line 433)
CancelForm ==
    /\ FormRendered
    /\ showForm' = FALSE
    /\ UNCHANGED <<bkMounted, bkAppointments, doctors, bkLoading, formData, errors,
                   submitError, successMessage, submitting, successMessageTimeoutRef,
                   timers, creates, fetches, submitted>>
    /\ settled' = NoSettle
    /\ UNCHANGED <<cancelVars, listVars>>
    /\ UNCHANGED lateSetters
    /\ UNCHANGED <<envVars, fnVars, dashVars>>

\* the values the controls can deliver
DateChoices == {NoDate, DateOnly(Today - 1), DateOnly(Today + 1)}
TimeChoices == {<<>>, TimeStr(8, 59), TimeStr(9, 0)}
ReasonChoices ==
    {<<>>, <<"x", "x", "x", "x", "x">>,
     <<"x", "x", "x", "x", "x", "x", "x", "x", "x", "x">>}
DoctorChoices == {""} \cup {doctors[i] : i \in 1..Len(doctors)}

FieldChoices(name) ==
    CASE name = "doctor" -> DoctorChoices
      [] name = "appointmentDate" -> DateChoices
      [] name = "appointmentTime" -> TimeChoices
      [] name = "reason" -> ReasonChoices

ValidatedFields == {"doctor", "appointmentDate", "appointmentTime", "reason"}

\* the change is stored without validating it
handleFieldChange_KeepsErrors(name, value) ==
    /\ FormRendered
    /\ formData[name] # value
    /\ formData' = [formData EXCEPT ![name] = value]
    /\ submitError' = ""
    /\ settled' = NoSettle
    /\ UNCHANGED <<bkMounted, bkAppointments, doctors, bkLoading, showForm, errors,
                   successMessage, submitting, successMessageTimeoutRef, timers,
                   creates, fetches, submitted, cancelVars, listVars>>
    /\ UNCHANGED lateSetters
    /\ UNCHANGED <<envVars, fnVars, dashVars>>

\* lines 171-178
handleFieldChange(name, value) ==
    /\ FormRendered
    /\ formData[name] # value
    /\ formData' = [formData EXCEPT ![name] = value]
    /\ errors' = [errors EXCEPT ![name] = getFieldValidationError(name, value)]
    /\ submitError' = ""
    /\ UNCHANGED <<bkMounted, bkAppointments, doctors, bkLoading, showForm,
                   successMessage, submitting, successMessageTimeoutRef, timers,
                   creates, fetches, submitted>>
    /\ settled' = NoSettle
    /\ UNCHANGED <<cancelVars, listVars>>
    /\ UNCHANGED lateSetters
    /\ UNCHANGED <<envVars, fnVars, dashVars>>

\* the symptoms textarea (lines 416-418)
ChangeSymptoms(value) ==
    /\ FormRendered
    /\ formData.symptoms # value
    /\ formData' = [formData EXCEPT !.symptoms = value]
    /\ UNCHANGED <<bkMounted, bkAppointments, doctors, bkLoading, showForm, errors,
                   submitError, successMessage, submitting, successMessageTimeoutRef,
                   timers, creates, fetches, submitted>>
    /\ settled' = NoSettle
    /\ UNCHANGED <<cancelVars, listVars>>
    /\ UNCHANGED lateSetters
    /\ UNCHANGED <<envVars, fnVars, dashVars>>

MaxSubmits == 2

\* handleSubmit (lines 189-202) up to its await; the submit event comes from
\* the submit button, which delivers none while it is disabled
Submit ==
    /\ FormRendered
    /\ ~SubmitDisabled
    /\ submitted < MaxSubmits
    /\ LET fieldErrors == validateBookingForm(formData) IN
       /\ errors' = fieldErrors
       /\ IF \/ fieldErrors.doctor # ""
             \/ fieldErrors.appointmentDate # ""
             \/ fieldErrors.appointmentTime # ""
             \/ fieldErrors.reason # ""
          THEN UNCHANGED <<submitting, submitError, creates, submitted>>
          ELSE /\ submitting' = TRUE
               /\ submitError' = ""
               /\ submitted' = submitted + 1
               /\ creates' = creates \cup {[id |-> submitted + 1, data |-> formData]}
    /\ settled' = NoSettle
    /\ UNCHANGED <<bkMounted, bkAppointments, doctors, bkLoading, showForm, formData,
                   successMessage, successMessageTimeoutRef, timers, fetches,
                   cancelVars, listVars>>
    /\ UNCHANGED lateSetters
    /\ UNCHANGED <<envVars, fnVars, dashVars>>

\* clearTimeout(successMessageTimeoutRef.current), guarded by != null
ClearTimeout(ts) ==
    IF successMessageTimeoutRef # 0
    THEN {t \in ts : t.id # successMessageTimeoutRef}
    ELSE ts

\* the new hide-timer is scheduled without clearing the previous one
CreateSettle_KeepsOldTimer(c, outcome) ==
    /\ c \in creates
    /\ creates' = creates \ {c}
    /\ IF outcome.ok
       THEN /\ successMessage' = Set("Appointment booked successfully.", successMessage)
            /\ formData' = Set(initialFormData, formData)
            /\ errors' = Set(initialErrors, errors)
            /\ showForm' = Set(FALSE, showForm)
            /\ fetchSeq' = fetchSeq + 1
            /\ fetches' = fetches \cup {[kind |-> "refresh", id |-> fetchSeq + 1]}
            /\ timers' = timers \cup
                             {[id |-> c.id, ms |-> SUCCESS_MESSAGE_HIDE_MS]}
            /\ successMessageTimeoutRef' = c.id
            /\ UNCHANGED submitError
       ELSE /\ submitError' = Set(IF outcome.message # "" THEN outcome.message
                                  ELSE "Failed to create appointment", submitError)
            /\ UNCHANGED <<successMessage, formData, errors, showForm, fetches, timers,
                           successMessageTimeoutRef, fetchSeq>>
    /\ submitting' = Set(FALSE, submitting)
    /\ settled' = [kind |-> "create", cancelled |-> FALSE, ok |-> <<outcome.ok>>,
                   message |-> IF outcome.ok THEN "" ELSE outcome.message]
    /\ lateSetters' = IF outcome.ok
                      THEN Late({"setSuccessMessage", "setFormData", "setErrors",
                                 "setShowForm", "setSubmitting"})
                      ELSE Late({"setSubmitError", "setSubmitting"})
    /\ UNCHANGED <<bkMounted, bkAppointments, doctors, bkLoading, submitted,
                   cancelVars, shownFetch, lastResolved>>
    /\ UNCHANGED <<envVars, fnVars, dashVars>>

\* the server's message is dropped
CreateSettle_GenericMessage(c, outcome) ==
    /\ c \in creates
    /\ creates' = creates \ {c}
    /\ IF outcome.ok
       THEN /\ successMessage' = Set("Appointment booked successfully.", successMessage)
            /\ formData' = Set(initialFormData, formData)
            /\ errors' = Set(initialErrors, errors)
            /\ showForm' = Set(FALSE, showForm)
            /\ fetchSeq' = fetchSeq + 1
            /\ fetches' = fetches \cup {[kind |-> "refresh", id |-> fetchSeq + 1]}
            /\ timers' = ClearTimeout(timers) \cup
                             {[id |-> c.id, ms |-> SUCCESS_MESSAGE_HIDE_MS]}
            /\ successMessageTimeoutRef' = c.id
            /\ UNCHANGED submitError
       ELSE /\ submitError' = Set("Failed to create appointment", submitError)
            /\ UNCHANGED <<successMessage, formData, errors, showForm, fetches, timers,
                           successMessageTimeoutRef, fetchSeq>>
    /\ submitting' = Set(FALSE, submitting)
    /\ settled' = [kind |-> "create", cancelled |-> FALSE, ok |-> <<outcome.ok>>,
                   message |-> IF outcome.ok THEN "" ELSE outcome.message]
    /\ lateSetters' = IF outcome.ok
                      THEN Late({"setSuccessMessage", "setFormData", "setErrors",
                                 "setShowForm", "setSubmitting"})
                      ELSE Late({"setSubmitError", "setSubmitting"})
    /\ UNCHANGED <<bkMounted, bkAppointments, doctors, bkLoading, submitted,
                   cancelVars, shownFetch, lastResolved>>
    /\ UNCHANGED <<envVars, fnVars, dashVars>>

\* handleSubmit (lines 203-224) from its await on
CreateSettle(c, outcome) ==
    /\ c \in creates
    /\ creates' = creates \ {c}
    /\ IF outcome.ok
       THEN /\ successMessage' = Set("Appointment booked successfully.", successMessage)
            /\ formData' = Set(initialFormData, formData)
            /\ errors' = Set(initialErrors, errors)
            /\ showForm' = Set(FALSE, showForm)
            /\ fetchSeq' = fetchSeq + 1
            /\ fetches' = fetches \cup {[kind |-> "refresh", id |-> fetchSeq + 1]}
            /\ timers' = ClearTimeout(timers) \cup
                             {[id |-> c.id, ms |-> SUCCESS_MESSAGE_HIDE_MS]}
            /\ successMessageTimeoutRef' = c.id
            /\ UNCHANGED submitError
       ELSE /\ submitError' = Set(IF outcome.message # "" THEN outcome.message
                                  ELSE "Failed to create appointment", submitError)
            /\ UNCHANGED <<successMessage, formData, errors, showForm, fetches, timers,
                           successMessageTimeoutRef, fetchSeq>>
    /\ submitting' = Set(FALSE, submitting)
    /\ settled' = [kind |-> "create", cancelled |-> FALSE, ok |-> <<outcome.ok>>,
                   message |-> IF outcome.ok THEN "" ELSE outcome.message]
    /\ lateSetters' = IF outcome.ok
                      THEN Late({"setSuccessMessage", "setFormData", "setErrors",
                                 "setShowForm", "setSubmitting"})
                      ELSE Late({"setSubmitError", "setSubmitting"})
    /\ UNCHANGED <<bkMounted, bkAppointments, doctors, bkLoading, submitted,
                   cancelVars, shownFetch, lastResolved>>
    /\ UNCHANGED <<envVars, fnVars, dashVars>>

\* the hide-timer's callback (line 214)
TimerFire(t) ==
    /\ t \in timers
    /\ timers' = timers \ {t}
    /\ successMessage' = Set("", successMessage)
    /\ settled' = NoSettle
    /\ lateSetters' = Late({"setSuccessMessage"})
    /\ UNCHANGED <<bkMounted, bkAppointments, doctors, bkLoading, showForm, formData,
                   errors, submitError, submitting, successMessageTimeoutRef, creates,
                   fetches, submitted, cancelVars, listVars>>
    /\ UNCHANGED <<envVars, fnVars, dashVars>>

MaxCancels == 1

\* the Cancel button of a listed appointment (lines 500-510) and
\* handleCancelAppointment (lines 226-231) up to its await
handleCancelAppointment(i, confirmed) ==
    /\ bkMounted = "yes" /\ ~bkLoading
    /\ i \in 1..Len(bkAppointments)
    /\ bkAppointments[i].status \notin {"cancelled", "completed"}
    /\ cancels < MaxCancels
    /\ IF confirmed
       THEN /\ cancels' = cancels + 1
            /\ updates' = updates \cup {[id |-> cancels + 1]}
       ELSE UNCHANGED cancelVars
    /\ settled' = NoSettle
    /\ UNCHANGED <<bkMounted, formState, successMessageTimeoutRef, timers, creates,
                   fetches, submitted, listVars>>
    /\ UNCHANGED lateSetters
    /\ UNCHANGED <<envVars, fnVars, dashVars>>

\* handleCancelAppointment (lines 232-237) from its await on
UpdateSettle(u, outcome) ==
    /\ u \in updates
    /\ updates' = updates \ {u}
    /\ IF outcome.ok
       THEN /\ fetchSeq' = fetchSeq + 1
            /\ fetches' = fetches \cup {[kind |-> "refresh", id |-> fetchSeq + 1]}
       ELSE UNCHANGED <<fetchSeq, fetches>>
    /\ settled' = NoSettle
    /\ UNCHANGED <<bkMounted, formState, successMessageTimeoutRef, timers, creates,
                   submitted, cancels, shownFetch, lastResolved>>
    /\ UNCHANGED lateSetters
    /\ UNCHANGED <<envVars, fnVars, dashVars>>

\* the cleanups of the two mount effects (lines 158-160, 164-168)
BkUnmount ==
    /\ bkMounted = "yes"
    /\ bkMounted' = "gone"
    /\ timers' = ClearTimeout(timers)
    /\ settled' = NoSettle
    /\ UNCHANGED <<formState, successMessageTimeoutRef, creates, fetches, submitted,
                   cancelVars, listVars>>
    /\ UNCHANGED lateSetters
    /\ UNCHANGED <<envVars, fnVars, dashVars>>

\* ---- specification of the booking view

\* a zone behind UTC: the date-only strings of the date input parse to the
\* evening before (local time); the dates the form offers (DateChoices) are
\* judged alike in every zone
FormZones == {0 - 5}

InitForm ==
    /\ now = Today * 24 + 12 /\ tz \in FormZones
    /\ FnIdle /\ DashIdle /\ FormIdle /\ settled = NoSettle

NextForm ==
    \/ BkMount
    \/ \E f \in fetches, o \in BookingListOutcomes : LoadAppointmentsSettle(f, o)
    \/ \E o \in DoctorsOutcomes : LoadDoctorsSettle(o)
    \/ \E f \in fetches, o \in BookingListOutcomes : RefreshSettle(f, o)
    \/ ToggleForm
    \/ CancelForm
    \/ \E name \in ValidatedFields : \E value \in FieldChoices(name) :
          handleFieldChange(name, value)
    \/ \E value \in {<<>>, <<"x">>} : ChangeSymptoms(value)
    \/ Submit
    \/ \E c \in creates, o \in CreateOutcomes : CreateSettle(c, o)
    \/ \E t \in timers : TimerFire(t)
    \/ BkUnmount

SpecForm == InitForm /\ [][NextForm]_vars

\* ---- specification of the booking view with the cancellation of listed
\* ---- appointments

UpdateOutcomes == {Rejected, Resolved("updated")}

NextBooking ==
    \/ NextForm
    \/ \E i \in 1..Len(bkAppointments), confirmed \in BOOLEAN :
          handleCancelAppointment(i, confirmed)
    \/ \E u \in updates, o \in UpdateOutcomes : UpdateSettle(u, o)

SpecBooking == InitForm /\ [][NextBooking]_vars

\* ---- specification of the dashboard

InitDash ==
    /\ now = Today * 24 + 12 /\ tz \in TimeZones
    /\ FnIdle /\ FormIdle /\ settled = NoSettle
    /\ user \in DashUsers /\ mounted = FALSE /\ DashInitialState
    /\ cycles = {} /\ started = 0

NextDash ==
    \/ Mount
    \/ \E u \in DashUsers : SetUser(u)
    \/ Unmount
    \/ \E c \in cycles, so \in StatsOutcomes, ao \in AppointmentsOutcomes,
          no \in AnalysesOutcomes, to \in TrendsOutcomes : Settle(c, so, ao, no, to)

SpecDash == InitDash /\ [][NextDash]_vars

\* ---- specifications of the pure functions

Noon == Today * 24 + 12

InitIdentity ==
    /\ now = Noon /\ tz = 0
    /\ call \in IdentityCalls /\ ret = Pending
    /\ DashIdle /\ FormIdle /\ settled = NoSettle

NextIdentity == CallGetCurrentPatientId \/ CallGetPatientIdFromAppointment

SpecIdentity == InitIdentity /\ [][NextIdentity]_vars

InitFilter ==
    /\ now = Noon /\ tz \in TimeZones
    /\ call \in FilterCalls /\ ret = Pending
    /\ DashIdle /\ FormIdle /\ settled = NoSettle

NextFilter == CallFilter

SpecFilter == InitFilter /\ [][NextFilter]_vars

\* early morning, noon and late evening (UTC) of day Today
Instants == {Today * 24 + 2, Noon, Today * 24 + 22}

InitValidation ==
    /\ now \in Instants /\ tz \in TimeZones
    /\ call \in ValidationCalls /\ ret = Pending
    /\ DashIdle /\ FormIdle /\ settled = NoSettle

NextValidation ==
    CallIsDateInFuture \/ CallIsBusinessHours \/ CallGetFieldValidationError

SpecValidation == InitValidation /\ [][NextValidation]_vars

\* ---- specification of the load cycles of both views: the dashboard, and
\* ---- the booking view as far as its mount effect goes. The views are
\* ---- separate pages that share no state; a behaviour follows one of them.

InitLoad ==
    /\ now = Noon /\ tz = 0
    /\ FnIdle /\ FormIdle /\ settled = NoSettle
    /\ user \in DashUsers /\ mounted = FALSE /\ DashInitialState
    /\ cycles = {} /\ started = 0

DashboardUntouched == ~mounted /\ started = 0

NextLoad ==
    \/ bkMounted = "no" /\ NextDash
    \/ DashboardUntouched /\ BkMount
    \/ DashboardUntouched /\
          \E f \in fetches, o \in BookingListOutcomes : LoadAppointmentsSettle(f, o)
    \/ DashboardUntouched /\ \E o \in DoctorsOutcomes : LoadDoctorsSettle(o)
    \/ DashboardUntouched /\ BkUnmount

SpecLoad == InitLoad /\ [][NextLoad]_vars

\* ------------------------------------------------------------ claims

IsCall(f) == call.fn = f /\ ret.k = "returned"

\* C1: with an empty patientId the filter returns an empty list and a count of
\* 0, whatever the list holds (also records whose resolved owner id is '').
C1_AntiLeak ==
    (IsCall("filterAppointmentsForPatientAndCountUpcoming") /\ call.patientId = "")
        => ret.v = [patientAppointments |-> <<>>, upcomingCount |-> 0]

C1_Witness ==
    /\ IsCall("filterAppointmentsForPatientAndCountUpcoming")
    /\ call.patientId = ""
    /\ \E i \in 1..Len(call.appointments) :
           getPatientIdFromAppointment(call.appointments[i]) = ""
    /\ ret.v.patientAppointments = <<>>

Displaying == mounted /\ ~loading /\ error = Nil

\* C2: whenever the dashboard displays data (loading false, error null), every
\* appointment in its view state is owned by getCurrentPatientId of the user
\* the auth context currently supplies.
C2_OnlyCurrentPatient ==
    Displaying
        => \A i \in 1..Len(appointments) :
               getPatientIdFromAppointment(appointments[i]) = getCurrentPatientId(user)

\* C3: for a non-empty patientId the returned list is exactly the input's
\* subsequence of records whose resolved owner id equals patientId, in order.
C3_ExactSubsequence ==
    (IsCall("filterAppointmentsForPatientAndCountUpcoming") /\ call.patientId # "")
        => LET Owned(a) == getPatientIdFromAppointment(a) = call.patientId
           IN ret.v.patientAppointments = SelectSeq(call.appointments, Owned)

C3_Witness ==
    /\ IsCall("filterAppointmentsForPatientAndCountUpcoming")
    /\ call.patientId = "p1"
    /\ Len(call.appointments) = 2
    /\ getPatientIdFromAppointment(call.appointments[1]) = "p2"
    /\ getPatientIdFromAppointment(call.appointments[2]) = "p1"
    /\ ret.v.patientAppointments = <<call.appointments[2]>>

\* the local calendar day a date value names
NamedLocalDay(s) ==
    CASE s.form = "date" -> s.day
      [] s.form = "utc" -> (DateParse(s) + tz) \div 24

LocalToday == (now + tz) \div 24

UpcomingByDate(a) ==
    /\ a.appointmentDate.form # "empty"
    /\ NamedLocalDay(a.appointmentDate) >= LocalToday
    /\ a.status \in {"pending", "confirmed"}

\* C4: upcomingCount is the number of returned records dated today (local
\* calendar date) or later whose status is pending or confirmed, and so is
\* at most the length of the returned list.
C4_UpcomingCount ==
    IsCall("filterAppointmentsForPatientAndCountUpcoming")
        => LET pa == ret.v.patientAppointments
           IN /\ ret.v.upcomingCount =
                    Cardinality({i \in 1..Len(pa) : UpcomingByDate(pa[i])})
              /\ ret.v.upcomingCount <= Len(pa)

IsPrimitive(x) == x.k \in {"str", "num"}
PrimitiveOnly(x) == IF IsPrimitive(x) THEN x ELSE Nil

\* the owner fields in the order the claim gives them
OwnerCandidates(a) ==
    << OptId(a.patient), PrimitiveOnly(a.patient), a.patientId,
       OptId(a.user), PrimitiveOnly(a.user), a.userId >>

RECURSIVE FirstNonNullish(_, _)
FirstNonNullish(seq, default) ==
    IF seq = <<>> THEN default
    ELSE IF Head(seq).k # "nil" THEN Head(seq)
    ELSE FirstNonNullish(Tail(seq), default)

\* C5: getPatientIdFromAppointment returns the string form of the first
\* non-nullish of patient._id, patient (only when primitive), patientId,
\* user._id, user (only when primitive), userId, and '' when there is none.
C5_FallbackChain ==
    IsCall("getPatientIdFromAppointment")
        => ret.v = JsString(FirstNonNullish(OwnerCandidates(call.appointment), Str("")))

\* C5 restricted to the records of the data model: an owner reference that is
\* an object carries an _id.
C5_FallbackChainWellFormed ==
    (/\ IsCall("getPatientIdFromAppointment")
     /\ call.appointment.patient # Obj(Nil)
     /\ call.appointment.user # Obj(Nil))
        => ret.v = JsString(FirstNonNullish(OwnerCandidates(call.appointment), Str("")))

\* C6: getCurrentPatientId is '' for no user, else the string form of _id when
\* that is non-nullish, else of id, else ''.
C6_CurrentPatientId ==
    IsCall("getCurrentPatientId")
        => ret.v = IF call.user = Nil THEN ""
                   ELSE IF call.user._id # Nil THEN JsString(call.user._id)
                   ELSE IF call.user.id # Nil THEN JsString(call.user.id)
                   ELSE ""

C6_Witness ==
    /\ IsCall("getCurrentPatientId")
    /\ call.user = UserObj(Str("a"), Str("b"))
    /\ ret.v = "a"

\* C7: isDateInFuture is false for '' and, for a date string, true exactly
\* when the calendar date it names is today's local date or later, at any
\* time of day.
C7_DateInFuture ==
    IsCall("isDateInFuture")
        => ret.v = (call.dateStr # NoDate /\ call.dateStr.day >= LocalToday)

\* C8: isBusinessHours is false for '' and, for "HH:MM", true exactly when
\* HH*60+MM lies in [540, 1020].
C8_BusinessHours ==
    IsCall("isBusinessHours")
        => /\ call.timeStr = <<>> => ret.v = FALSE
           /\ \A h \in 0..23, m \in 0..59 :
                 call.timeStr = TimeStr(h, m)
                     => ret.v = (h * 60 + m >= 540 /\ h * 60 + m <= 1020)

C8_Witness ==
    /\ IsCall("isBusinessHours")
    /\ call.timeStr = <<"1", "7", ":", "0", "0">>
    /\ ret.v = TRUE

\* C9: getFieldValidationError: doctor fails iff empty; an empty date or time
\* passes and a non-empty one fails iff its predicate is false; an empty
\* reason fails and a non-empty one fails iff its trimmed length is below 10.
C9_FieldRules ==
    IsCall("getFieldValidationError")
        => LET v == call.value
               failed == ret.v # ""
           IN /\ call.name = "doctor" => (failed <=> v = "")
              /\ call.name = "appointmentDate"
                    => IF v = NoDate THEN ~failed ELSE (failed <=> ~isDateInFuture(v))
              /\ call.name = "appointmentTime"
                    => IF v = <<>> THEN ~failed ELSE (failed <=> ~isBusinessHours(v))
              /\ call.name = "reason"
                    => IF v = <<>> THEN failed ELSE (failed <=> Len(Trim(v)) < 10)

C9_Witness ==
    /\ IsCall("getFieldValidationError")
    /\ call.name = "reason"
    /\ call.value = <<" ", "x", "x", "x", "x", "x", "x", "x", "x", "x", " ">>
    /\ ret.v # ""

FieldPasses(name) == getFieldValidationError(name, formData[name]) = ""

\* C10: whenever the booking form is on screen, its submit button is disabled
\* exactly when some of doctor, appointmentDate, appointmentTime, reason fails
\* its field rule on the current form values, or a submission is in flight.
C10_SubmitDisabled ==
    FormRendered
        => (SubmitDisabled <=>
               (~(\A name \in ValidatedFields : FieldPasses(name)) \/ creates # {}))

C10_Witness ==
    /\ FormRendered
    /\ \A name \in ValidatedFields : FieldPasses(name)
    /\ creates # {}
    /\ SubmitDisabled

\* C11 (as stated): in every state of the mounted booking view, for each of
\* doctor, appointmentDate, appointmentTime and reason, the stored error is
\* non-empty exactly when the field's current value violates its rule.
FieldViolated(k) == getFieldValidationError(k, formData[k]) # ""

C11_ErrorsIffViolated ==
    bkMounted = "yes" =>
        \A k \in ValidatedFields : (errors[k] # "") <=> FieldViolated(k)

\* C11 (amended): the stored error of a field is the rule's message for the
\* field's current value, or it is empty and the field still holds its
\* initial value; so a stored error is non-empty only if the field violates
\* its rule, and a violated rule goes without an error only on a field that
\* has not been changed since the form was opened or reset.
C11_ErrorsTrackFields ==
    \A k \in ValidatedFields :
        \/ errors[k] = getFieldValidationError(k, formData[k])
        \/ errors[k] = "" /\ formData[k] = initialFormData[k]

\* a changed field carries its rule's error next to an untouched, violated
\* field without one
C11_Witness ==
    /\ FormRendered
    /\ formData.reason # initialFormData.reason /\ errors.reason # ""
    /\ formData.doctor = initialFormData.doctor /\ errors.doctor = ""

\* C12: single-flight submission: at most one appointmentService.create call
\* is in flight at any time; while one is in flight no submit starts another.
C12_SingleFlight == Cardinality(creates) <= 1

\* a valid form is on screen while a create is in flight, and that create is
\* the second of the session
C12_Witness ==
    /\ FormRendered /\ isFormValid
    /\ Cardinality(creates) = 1 /\ submitted = 2

\* C13: a load cycle whose cancellation flag is set (the view unmounted, or
\* the effect was superseded by a change of the user id) commits no state
\* when its fetches resolve or reject, in the dashboard and in the booking
\* view alike.
C13_CancelledNeverCommits ==
    [][(settled'.kind # "none" /\ settled'.cancelled)
          => UNCHANGED <<dashState, formState>>]_vars

\* all four fetches of a superseded dashboard cycle have resolved while the
\* cycle of the next user is still pending, and nothing has been committed
C13_Witness ==
    /\ settled.kind = "dashboard" /\ settled.cancelled
    /\ settled.ok = <<TRUE, TRUE, TRUE, TRUE>>
    /\ mounted /\ \E c \in cycles : ~c.cancelled
    /\ stats = Nil /\ appointments = <<>> /\ loading

\* C14: no dangling timers: in every state after the booking view has
\* unmounted, no success-message hide-timer is pending.
C14_NoDanglingTimers == bkMounted = "gone" => timers = {}

\* C15: while the booking view is mounted, the success message is shown
\* exactly while a hide-timer is pending; at most one hide-timer is pending,
\* it is the one the most recent successful booking scheduled (the handle in
\* the ref), and it runs for 5000 ms.
C15_SuccessMessageTimer ==
    bkMounted = "yes" =>
        /\ Cardinality(timers) <= 1
        /\ \A t \in timers : t.id = successMessageTimeoutRef /\ t.ms = 5000
        /\ (successMessage # "") <=> (timers # {})

\* the second booking of the session has succeeded: its message is shown
\* and its timer is the only one pending
C15_Witness ==
    /\ bkMounted = "yes" /\ submitted = 2 /\ creates = {}
    /\ successMessage = "Appointment booked successfully."
    /\ successMessageTimeoutRef = 2
    /\ timers = {[id |-> 2, ms |-> 5000]}

\* C16: primary failure surfaces an error: when the continuation of a load
\* cycle that is not cancelled runs after the appointments fetch or the
\* stats fetch failed, it sets the error state and commits no stats.
PrimaryFailed(st) == ~st.ok[1] \/ ~st.ok[2]

C16_PrimaryFailureSurfaces ==
    [][(settled'.kind = "dashboard" /\ ~settled'.cancelled /\ PrimaryFailed(settled'))
          => (error' # Nil /\ stats' = stats)]_vars

\* C17: secondary failure degrades: when only the analyses fetch and/or the
\* trends fetch failed, the cycle commits the stats and the patient's
\* appointments, an empty collection for each failed fetch, and leaves the
\* error null; a failed doctor-list fetch of the booking view leaves the
\* doctor list empty and sets no error.
OnlySecondaryFailed(st) == st.ok[1] /\ st.ok[2] /\ (~st.ok[3] \/ ~st.ok[4])

C17_SecondaryFailureDegrades ==
    /\ (settled.kind = "dashboard" /\ ~settled.cancelled /\ OnlySecondaryFailed(settled))
         => LET r == filterAppointmentsForPatientAndCountUpcoming(
                         ServerAppointments, settled.currentPatientId)
            IN /\ stats # Nil
               /\ stats.myAppointments = Len(r.patientAppointments)
               /\ stats.upcomingAppointments = r.upcomingCount
               /\ stats.myAnalyses = ServerStats.myAnalyses
               /\ appointments = r.patientAppointments
               /\ analyses = (IF settled.ok[3] THEN <<"analysis">> ELSE <<>>)
               /\ trends = (IF settled.ok[4] THEN <<"trend">> ELSE <<>>)
               /\ error = Nil
               /\ ~loading
    /\ (settled.kind = "loadDoctors" /\ ~settled.ok[1])
         => doctors = <<>> /\ submitError = ""

\* only the trends fetch failed in a cycle of patient a: the patient's two
\* appointments and the stats are committed, trends is empty, error is null
C17_Witness ==
    /\ settled.kind = "dashboard" /\ ~settled.cancelled
    /\ settled.ok = <<TRUE, TRUE, TRUE, FALSE>>
    /\ settled.currentPatientId = "a"
    /\ Len(appointments) = 2 /\ trends = <<>> /\ analyses = <<"analysis">>
    /\ error = Nil

\* C18: between two renders of the mounted dashboard a new load cycle starts
\* when, and only when, getCurrentPatientId(user) changes; a change cancels
\* the previous cycle and starts one that filters with the new resolved id.
C18_ReloadOnResolvedIdChange ==
    [][(mounted /\ mounted' /\ user' # user) =>
          IF getCurrentPatientId(user') = getCurrentPatientId(user)
          THEN started' = started /\ cycles' = cycles
          ELSE getCurrentPatientId(user') # "" =>
                  /\ started' = started + 1
                  /\ \A c \in cycles' :
                        IF c.id = started'
                        THEN ~c.cancelled /\
                             c.currentPatientId = getCurrentPatientId(user')
                        ELSE c.cancelled]_vars

\* C19: latest fetch wins in the booking view: once all appointment-list
\* fetches of the mounted view have settled, the committed list is the
\* response of the most recently started fetch that resolved; a response of
\* an earlier-started fetch never replaces that of a later-started one.
ListFetchPending == \E f \in fetches : f.kind \in {"loadAppointments", "refresh"}

C19_LatestFetchWins ==
    (bkMounted = "yes" /\ ~ListFetchPending) => shownFetch = lastResolved

\* C20: validation gates submission: every appointmentService.create call
\* carries a form state with a doctor selected, a non-empty date that is
\* today or later, a non-empty time within 09:00-17:00 inclusive, and a
\* reason of at least 10 characters after trimming.
BookableData(data) ==
    /\ data.doctor # ""
    /\ data.appointmentDate.form # "empty"
    /\ NamedLocalDay(data.appointmentDate) >= LocalToday
    /\ data.appointmentTime # <<>>
    /\ isBusinessHours(data.appointmentTime)
    /\ Len(Trim(data.reason)) >= 10

C20_ValidationGatesCreate == \A c \in creates : BookableData(c.data)

\* C21: no state mutation after unmount in the booking view: once the view
\* has unmounted, no continuation of its pending asynchronous work (a create,
\* an appointment refresh, a load, a timer) invokes a state setter.
C21_NoSetterAfterUnmount == lateSetters = {}

\* C22: dashboard stats are replaced wholesale per cycle: stats,
\* appointments, analyses and trends change only together, either reset by a
\* fresh mount or committed by one cycle, and then stats.myAppointments is
\* the length of the list that cycle committed and stats.upcomingAppointments
\* the upcoming count of the same pass, whatever the server's stats carry
\* under those keys.
DashData == <<stats, appointments, analyses, trends>>

C22_WholesaleStats ==
    [][\/ UNCHANGED DashData
       \/ /\ ~mounted /\ mounted'
          /\ stats' = Nil /\ appointments' = <<>> /\ analyses' = <<>> /\ trends' = <<>>
       \/ /\ settled'.kind = "dashboard" /\ ~settled'.cancelled /\ settled'.ok[1]
          /\ LET r == filterAppointmentsForPatientAndCountUpcoming(
                          IF settled'.ok[2] THEN ServerAppointments ELSE <<>>,
                          settled'.currentPatientId)
             IN /\ appointments' = r.patientAppointments
                /\ stats' # Nil
                /\ stats'.myAppointments = Len(appointments')
                /\ stats'.upcomingAppointments = r.upcomingCount
                /\ stats'.myAnalyses = ServerStats.myAnalyses
                /\ stats'.myReports = ServerStats.myReports
                /\ analyses' = (IF settled'.ok[3] THEN <<"analysis">> ELSE <<>>)
                /\ trends' = (IF settled'.ok[4] THEN <<"trend">> ELSE <<>>)]_vars

\* the second cycle of a mounted dashboard has committed for patient b: one
\* appointment, and the counts are the computed ones, not the server's 7
C22_Witness ==
    /\ mounted /\ started = 2
    /\ settled.kind = "dashboard" /\ ~settled.cancelled
    /\ settled.ok = <<TRUE, TRUE, TRUE, TRUE>> /\ settled.currentPatientId = "b"
    /\ Len(appointments) = 1 /\ stats # Nil /\ stats.myAppointments = 1
    /\ ServerStats.myAppointments # 1

\* C23: submission failure leaves the form intact: when create rejects in
\* the mounted view, submitError becomes the server's message if there is one
\* and 'Failed to create appointment' otherwise; formData, errors, showForm,
\* the success message and the hide-timer are unchanged, no create is
\* started, and submitting is false again.
C23_FailureLeavesForm ==
    [][(bkMounted = "yes" /\ settled'.kind = "create" /\ ~settled'.ok[1]) =>
          /\ submitError' = (IF settled'.message # "" THEN settled'.message
                             ELSE "Failed to create appointment")
          /\ UNCHANGED <<formData, errors, showForm, successMessage, timers,
                         successMessageTimeoutRef, submitted>>
          /\ creates' \subseteq creates
          /\ submitting' = FALSE]_vars

\* a create has just been rejected with the server's message: the message
\* is shown, the valid form is still filled in and on screen, the button is
\* enabled again
C23_Witness ==
    /\ settled.kind = "create" /\ ~settled.ok[1]
    /\ settled.message = "Doctor is not available"
    /\ submitError = "Doctor is not available"
    /\ FormRendered /\ isFormValid /\ ~SubmitDisabled
    /\ formData # initialFormData /\ creates = {}

====
